---- MODULE Spec2Model ----
(***************************************************************************)
(* A model of five parts of gondolin's host package:                       *)
(*                                                                         *)
(*   - FrameReader, the length-prefixed frame decoder of host/src/exec.ts  *)
(*     (specification SpecFrame);                                          *)
(*   - the exec client's socket handlers of host/src/exec.ts               *)
(*     (specification SpecExec);                                           *)
(*   - the VM pool of host/test/helpers/vm-fixture.ts: getEntry, withVm,   *)
(*     closeVm, closeAllVms and the Semaphore (specifications SpecPool,    *)
(*     FairPool and FairNest);                                             *)
(*   - ReadonlyVirtualProvider of host/src/vfs/readonly-virtual.ts with    *)
(*     isWriteFlag of host/src/vfs/utils.ts (specification SpecProvider);  *)
(*   - normalizeVfsPath of host/src/vfs/utils.ts (specification SpecPath). *)
(*                                                                         *)
(* Each specification moves its own variables and leaves the others at     *)
(* their initial values.                                                   *)
(***************************************************************************)
EXTENDS Integers, Sequences, FiniteSets, TLC

VARIABLES
  \* ---- FrameReader (exec.ts 87-112) and its input
  buffer,          \* FrameReader.buffer, a sequence of bytes
  expectedLength,  \* FrameReader.expectedLength, Null or a number
  wire,            \* bytes of the stream not yet handed to push()
  frames,          \* the frame bodies the peer encoded (fixed by Init)
  emitted,         \* the frames onFrame has been called with, in order
  fed,             \* number of bytes handed to push() so far
  threw,           \* the last push() ended by throwing
  failed,          \* some push() has thrown "Frame too large"
  lastEmit,        \* number of onFrame calls made by the last push()
  split,           \* some push() returned with part of a frame buffered
  \* ---- the exec client, main() of exec.ts 148-204
  argsId,          \* args.id, the id of the request this client sends
  sock,            \* the socket: "connecting", "open", "ended" (by either
                   \*   side), "destroyed" (after an error)
  written,         \* the messages written to the socket
  proc,            \* the process: "running" or "exited"
  exitCode,        \* the argument of process.exit, Null while running
  stdout,          \* bytes written to process.stdout
  stderr,          \* bytes written to process.stderr
  diag,            \* what console.error last reported
  recv,            \* the frames passed to the onFrame callback, in order
  arrived,         \* the frames completed by the chunks received, in order
  endedBy,         \* what ended the process: a frame, or a socket event
  \* ---- the VM pool of vm-fixture.ts
  pool,            \* pool: key -> entry (named by its VM handle), 0 if none
  pending,         \* pending: key -> creation promise (named by the handle it
                   \*   will yield), 0 if none
  vm,              \* handle -> "none", "creating", "failed", "live",
                   \*   "stopping" (stop() called), "stopped"
  vmKey,           \* handle -> the key VM.create was called for, 0 if none
  semCount,        \* handle -> Semaphore.count of its entry
  semQueue,        \* handle -> Semaphore.queue of its entry (waiting callers)
  pc,              \* caller -> where its withVm call stands
  ckey,            \* caller -> the key of its withVm call, 0 before the call
  centry,          \* caller -> the entry getEntry gave it, 0 if none yet
  cprom,           \* caller -> the creation promise it awaits or awaited
  via,             \* caller -> the branch of getEntry it took
  waited,          \* caller -> its acquire() found the gate taken and queued
  parent,          \* the caller whose callback made the nested call, or 0
  closes,          \* number of closeVm and closeAllVms calls made
  torn,            \* key -> closeVm(key) or closeAllVms has been called
  stopSeen,        \* caller -> handles already stopping when it called withVm
  stops,           \* handle -> number of stop() calls made on its VM
  shutdown,        \* the latest closeAllVms call: its state ("none",
                   \*   "stopping", "done"; "unobserved" where the call is
                   \*   not followed), the handles it called stop() on,
                   \*   the handles created or in creation when it was called,
                   \*   and whether the tables held none of these when
                   \*   it completed
  \* ---- a ReadonlyVirtualProvider (readonly-virtual.ts) and its backend
  op,              \* the method last called on the provider and its arguments
  oracle,          \* what the backend (the abstract methods) does when called
  backend,         \* the backend methods the last call invoked, in order
  opResult,        \* how the last call ended: returned, threw, resolved,
                   \*   rejected, and its value or error
  \* ---- normalizeVfsPath (utils.ts 40-49)
  inputPath,       \* the argument, a sequence of characters
  normalized,      \* normalizeVfsPath(inputPath), once computed
  renormalized     \* normalizeVfsPath(normalized), once computed

frameVars == <<buffer, expectedLength, wire, frames, emitted, fed, threw,
               failed, lastEmit, split>>

execVars == <<argsId, sock, written, proc, exitCode, stdout, stderr, diag,
              recv, arrived, endedBy>>

teardownVars == <<stops, shutdown>>

poolVars == <<pool, pending, vm, vmKey, semCount, semQueue, pc, ckey, centry,
              cprom, via, waited, parent, closes, torn, stopSeen,
              teardownVars>>

providerVars == <<op, oracle, backend, opResult>>

pathVars == <<inputPath, normalized, renormalized>>

vfsVars == <<providerVars, pathVars>>

vars == <<frameVars, execVars, poolVars, vfsVars>>

(***************************************************************************)
(* Bounds of the model.                                                    *)
(***************************************************************************)
MaxFrames == 2      \* frames the peer encodes
MaxRecv == 3        \* frames the exec client is sent
NumCallers == 2     \* top-level withVm calls
MaxVms == 3         \* VM.create invocations
MaxCloses == 2      \* closeVm and closeAllVms calls

(***************************************************************************)
(* Helpers.                                                                *)
(***************************************************************************)
SeqsUpTo(S, n) == UNION {[1..k -> S] : k \in 0..n}

\* Buffer.slice(n): the bytes from offset n on.
SliceFrom(b, n) == SubSeq(b, n + 1, Len(b))

\* null (expectedLength) and undefined (an absent field)
Null == -1

(***************************************************************************)
(* The state each part is constructed in.                                  *)
(***************************************************************************)
ExecIdle ==
  /\ argsId = 1
  /\ sock = "connecting"
  /\ written = <<>>
  /\ proc = "running"
  /\ exitCode = Null
  /\ stdout = <<>>
  /\ stderr = <<>>
  /\ diag = ""
  /\ recv = <<>>
  /\ arrived = <<>>
  /\ endedBy = ""

FrameIdle ==
  /\ frames = <<>>
  /\ wire = <<>>
  /\ buffer = <<>>
  /\ expectedLength = Null
  /\ emitted = <<>>
  /\ fed = 0
  /\ threw = FALSE
  /\ failed = FALSE
  /\ lastEmit = 0
  /\ split = FALSE

\* No method of the provider has been called.
NoError == [errno |-> "", syscall |-> "", path |-> ""]
NoResult == [kind |-> "", value |-> "", error |-> NoError]

ProviderIdle ==
  /\ op = [name |-> "", async |-> FALSE, path |-> "", path2 |-> "",
           flags |-> <<>>, mode |-> Null]
  /\ oracle = NoResult
  /\ backend = <<>>
  /\ opResult = NoResult

\* normalizeVfsPath has not been called.
PathIdle ==
  /\ inputPath = <<>>
  /\ normalized = <<>>
  /\ renormalized = <<>>

VfsIdle == ProviderIdle /\ PathIdle

\* The pool's keys, its callers (the top-level withVm calls and one call
\* nested in a callback) and the handles VM.create can yield.
Keys == {1, 2}
Top == 1..NumCallers
Inner == NumCallers + 1
Callers == Top \cup {Inner}
Handles == 1..MaxVms

PoolEmpty ==
  /\ pool = [k \in Keys |-> 0]
  /\ pending = [k \in Keys |-> 0]
  /\ vm = [h \in Handles |-> "none"]
  /\ vmKey = [h \in Handles |-> 0]
  /\ semCount = [h \in Handles |-> 0]
  /\ semQueue = [h \in Handles |-> <<>>]
  /\ pc = [c \in Callers |-> "idle"]
  /\ ckey = [c \in Callers |-> 0]
  /\ centry = [c \in Callers |-> 0]
  /\ cprom = [c \in Callers |-> 0]
  /\ via = [c \in Callers |-> ""]
  /\ waited = [c \in Callers |-> FALSE]
  /\ parent = 0
  /\ closes = 0
  /\ torn = [k \in Keys |-> FALSE]
  /\ stopSeen = [c \in Callers |-> {}]
  /\ stops = [h \in Handles |-> 0]

\* No closeAllVms call has been made.
NoShutdown ==
  [state |-> "none", stopped |-> {}, known |-> {}, cleanAtDone |-> FALSE]

PoolIdle == PoolEmpty /\ shutdown = [NoShutdown EXCEPT !.state = "unobserved"]

(***************************************************************************)
(* FrameReader                                                             *)
(***************************************************************************)
MAX_FRAME == 4 * 1024 * 1024

\* Buffer.readUInt32BE(0)
ReadUInt32BE(b) == b[1] * 16777216 + b[2] * 65536 + b[3] * 256 + b[4]

\* header.writeUInt32BE(n, 0) on a 4-byte buffer
WriteUInt32BE(n) ==
  << (n \div 16777216) % 256, (n \div 65536) % 256, (n \div 256) % 256, n % 256 >>

\* One frame on the wire: header, then the body.
EncodeFrame(body) == WriteUInt32BE(Len(body)) \o body

RECURSIVE EncodeAll(_)
EncodeAll(fs) ==
  IF fs = <<>> THEN <<>> ELSE EncodeFrame(Head(fs)) \o EncodeAll(Tail(fs))

\* A buggy push(): `if` in place of `while (true)`, one frame per call at most.
DrainOnce(buf, exp, out) ==
  IF exp = Null /\ Len(buf) < 4
  THEN [buffer |-> buf, expectedLength |-> exp, frames |-> out, threw |-> FALSE]
  ELSE LET e == IF exp = Null THEN ReadUInt32BE(buf) ELSE exp
           b == IF exp = Null THEN SliceFrom(buf, 4) ELSE buf
       IN  IF exp = Null /\ e > MAX_FRAME
           THEN [buffer |-> b, expectedLength |-> e, frames |-> out, threw |-> TRUE]
           ELSE IF Len(b) < e
           THEN [buffer |-> b, expectedLength |-> e, frames |-> out, threw |-> FALSE]
           ELSE [buffer |-> SliceFrom(b, e), expectedLength |-> Null,
                 frames |-> Append(out, SubSeq(b, 1, e)), threw |-> FALSE]

\* The while (true) loop of push(), from the reader state (buf, exp) with
\* `out` the frames already passed to onFrame by this call.  The result is
\* the reader's state when push() returns or throws.
RECURSIVE Drain(_, _, _)
Drain(buf, exp, out) ==
  IF exp = Null /\ Len(buf) < 4
  THEN [buffer |-> buf, expectedLength |-> exp, frames |-> out, threw |-> FALSE]
  ELSE LET e == IF exp = Null THEN ReadUInt32BE(buf) ELSE exp
           b == IF exp = Null THEN SliceFrom(buf, 4) ELSE buf
       IN  IF exp = Null /\ e > MAX_FRAME
           THEN [buffer |-> b, expectedLength |-> e, frames |-> out, threw |-> TRUE]
           ELSE IF Len(b) < e
           THEN [buffer |-> b, expectedLength |-> e, frames |-> out, threw |-> FALSE]
           ELSE Drain(SliceFrom(b, e), Null, Append(out, SubSeq(b, 1, e)))

\* The frame bodies the peer may send.  Their bytes are also header bytes:
\* <<0, 0, 0, 0>> reads as the header of an empty frame, <<0, 0, 0, 1, 1>>
\* as a whole one-byte frame.
Bodies == { <<>>, <<1>>, <<0, 0, 0, 0>>, <<0, 0, 0, 1, 1>> }

\* What may follow the well-formed frames: nothing, or a header declaring
\* more than MAX_FRAME followed by some of its payload.
OversizeTails ==
  { <<>>,
    WriteUInt32BE(MAX_FRAME + 1),
    WriteUInt32BE(MAX_FRAME + 1) \o <<1>>,
    <<1, 0, 0, 0>> \o <<0, 0, 0, 1, 1>> }

\* Or the start of the largest frame allowed: a header declaring exactly
\* MAX_FRAME, followed by some of its payload.
Tails == OversizeTails \cup { WriteUInt32BE(MAX_FRAME) \o <<1>> }

InitFrame ==
  /\ ExecIdle
  /\ PoolIdle
  /\ VfsIdle
  /\ frames \in SeqsUpTo(Bodies, MaxFrames)
  /\ \E tail \in Tails : wire = EncodeAll(frames) \o tail
  /\ buffer = <<>>
  /\ expectedLength = Null
  /\ emitted = <<>>
  /\ fed = 0
  /\ threw = FALSE
  /\ failed = FALSE
  /\ lastEmit = 0
  /\ split = FALSE

\* reader.push(chunk, onFrame) with the next n bytes of the stream as the
\* chunk.  A push() that threw leaves the reader as it stood at the throw,
\* and the reader can be pushed to again.
Push ==
  /\ wire # <<>>
  /\ \E n \in 1..Len(wire) :
       LET chunk == SubSeq(wire, 1, n)
           r == Drain(buffer \o chunk, expectedLength, <<>>)
       IN  /\ buffer' = r.buffer
           /\ expectedLength' = r.expectedLength
           /\ emitted' = emitted \o r.frames
           /\ threw' = r.threw
           /\ failed' = (failed \/ r.threw)
           /\ lastEmit' = Len(r.frames)
           /\ wire' = SliceFrom(wire, n)
           /\ fed' = fed + n
           /\ split' = (split \/ r.buffer # <<>> \/ r.expectedLength # Null)
  /\ UNCHANGED <<frames, execVars, poolVars, vfsVars>>

NextFrame == Push

SpecFrame == InitFrame /\ [][NextFrame]_vars

(***************************************************************************)
(* The exec client: main() of exec.ts                                      *)
(***************************************************************************)
\* The ids on the transport: the client's own and another request's.
Ids == {1, 2}

\* message.p.exit_code or message.p.signal absent
Undefined == Null

\* The decoded frames a peer may send.  "unknown" stands for a type other
\* than the three of IncomingMessage, "malformed" for a body that
\* cbor.decodeFirstSync rejects.
Messages ==
  [t : {"exec_output"}, id : Ids, stream : {"stdout", "stderr"},
   data : {<<1>>, <<2>>}, exit_code : {Undefined}, signal : {Undefined}]
  \cup
  [t : {"exec_response"}, id : Ids, stream : {""}, data : {<<>>},
   exit_code : {Undefined, 0, 3}, signal : {Undefined, 9}]
  \cup
  [t : {"error", "unknown", "malformed"}, id : Ids, stream : {""},
   data : {<<>>}, exit_code : {Undefined}, signal : {Undefined}]

\* How many frames one chunk may complete: one, or several at once.
ChunkFrames == {1, 2}

\* buildExecRequest(args)
buildExecRequest(id) == [v |-> 1, t |-> "exec_request", id |-> id]

\* The state of the process the frame callback reads and writes.
ProcState ==
  [proc |-> proc, exitCode |-> exitCode, stdout |-> stdout, stderr |-> stderr,
   diag |-> diag, sock |-> sock, n |-> 0]

\* process.exit(code), after socket.end() when `end` is set.
Exit(st, code, d, end) ==
  [st EXCEPT !.proc = "exited", !.exitCode = code, !.diag = d,
             !.sock = IF end THEN "ended" ELSE @]

\* A buggy exec_output branch: the streams are swapped.
OnOutputSwapped(st, m) ==
  IF m.stream = "stdout"
  THEN [st EXCEPT !.stderr = @ \o m.data]
  ELSE [st EXCEPT !.stdout = @ \o m.data]

\* The exec_output branch: the data goes to stdout when the frame is tagged
\* stdout and to stderr otherwise.
OnOutput(st, m) ==
  IF m.stream = "stdout"
  THEN [st EXCEPT !.stdout = @ \o m.data]
  ELSE [st EXCEPT !.stderr = @ \o m.data]

\* The exec_response branch: `exit_code ?? 1` is the exit status; a signal
\* is reported on the console only.
OnResponse(st, m) ==
  Exit(st, IF m.exit_code = Undefined THEN 1 ELSE m.exit_code,
       IF m.signal # Undefined THEN "signal" ELSE st.diag, TRUE)

\* A buggy error branch: the error is reported and the client goes on.
OnErrorReported(st, m) == [st EXCEPT !.diag = "error"]

\* The error branch: reported, the socket ended, exit status 1.
OnError(st, m) == Exit(st, 1, "error", TRUE)

\* The callback main() gives reader.push: one decoded frame m.  A throw of
\* cbor.decodeFirstSync is uncaught and ends the process with status 1.  A
\* frame of any other type falls through the three branches.
OnFrame(st, m) ==
  IF m.t = "malformed" THEN Exit(st, 1, "uncaught", FALSE)
  ELSE IF m.t = "exec_output" THEN OnOutput(st, m)
  ELSE IF m.t = "exec_response" THEN OnResponse(st, m)
  ELSE IF m.t = "error" THEN OnError(st, m)
  ELSE st

\* A process that survives process.exit: the push loop goes on.
Survives(st) == FALSE

\* process.exit does not return: nothing of the process runs after it.
Exited(st) == st.proc = "exited"

\* reader.push(chunk, callback) for a chunk that completes the frames ms:
\* the callback runs on each in turn until process.exit ends the process.
\* n counts the frames the callback was called with.
RECURSIVE OnData(_, _)
OnData(st, ms) ==
  IF ms = <<>> \/ Exited(st)
  THEN st
  ELSE OnData([OnFrame(st, Head(ms)) EXCEPT !.n = st.n + 1], Tail(ms))

\* parseArgs: --id is any id, 1 by default.
InitExec ==
  /\ FrameIdle
  /\ PoolIdle
  /\ VfsIdle
  /\ argsId \in Ids
  /\ sock = "connecting"
  /\ written = <<>>
  /\ proc = "running"
  /\ exitCode = Null
  /\ stdout = <<>>
  /\ stderr = <<>>
  /\ diag = ""
  /\ recv = <<>>
  /\ arrived = <<>>
  /\ endedBy = ""

\* A buggy "end" handler: the close of the transport is not acted on.
OnEndIgnored(st) == st

\* The "end" handler: process.exit(1).
OnEnd(st) == Exit(st, 1, st.diag, FALSE)

\* The "error" handler: the error is reported, process.exit(1).
OnSocketError(st) == Exit(st, 1, "socket error", FALSE)

\* socket "connect": the request is encoded and written.
Connect ==
  /\ proc = "running"
  /\ sock = "connecting"
  /\ sock' = "open"
  /\ written' = Append(written, buildExecRequest(argsId))
  /\ UNCHANGED <<argsId, proc, exitCode, stdout, stderr, diag, recv, arrived,
                 endedBy>>
  /\ UNCHANGED <<frameVars, poolVars, vfsVars>>

\* socket "data": a chunk arrives that completes the frames ms.
Data ==
  /\ proc = "running"
  /\ sock = "open"
  /\ \E ms \in UNION {[1..k -> Messages] : k \in ChunkFrames} :
       /\ Len(recv) + Len(ms) <= MaxRecv
       /\ LET st == OnData(ProcState, ms)
          IN  /\ proc' = st.proc
              /\ exitCode' = st.exitCode
              /\ stdout' = st.stdout
              /\ stderr' = st.stderr
              /\ diag' = st.diag
              /\ sock' = st.sock
              /\ recv' = recv \o SubSeq(ms, 1, st.n)
              /\ arrived' = arrived \o ms
              /\ endedBy' = IF Exited(st) THEN "frame" ELSE endedBy
  /\ UNCHANGED <<argsId, written>>
  /\ UNCHANGED <<frameVars, poolVars, vfsVars>>

\* socket "error": the connection failed or broke (the socket is destroyed)
\* and the "error" handler runs.
SocketError ==
  /\ proc = "running"
  /\ sock \in {"connecting", "open"}
  /\ LET st == OnSocketError(ProcState)
     IN  /\ proc' = st.proc
         /\ exitCode' = st.exitCode
         /\ diag' = st.diag
         /\ endedBy' = IF Exited(st) THEN "socket error" ELSE endedBy
  /\ sock' = "destroyed"
  /\ UNCHANGED <<argsId, written, stdout, stderr, recv, arrived>>
  /\ UNCHANGED <<frameVars, poolVars, vfsVars>>

\* socket "end": the peer closed the transport and the "end" handler runs.
SocketEnd ==
  /\ proc = "running"
  /\ sock = "open"
  /\ LET st == OnEnd(ProcState)
     IN  /\ proc' = st.proc
         /\ exitCode' = st.exitCode
         /\ diag' = st.diag
         /\ endedBy' = IF Exited(st) THEN "socket end" ELSE endedBy
  /\ sock' = "ended"
  /\ UNCHANGED <<argsId, written, stdout, stderr, recv, arrived>>
  /\ UNCHANGED <<frameVars, poolVars, vfsVars>>

NextExec == Connect \/ Data \/ SocketError \/ SocketEnd

SpecExec == InitExec /\ [][NextExec]_vars

(***************************************************************************)
(* The VM pool: Semaphore, getEntry, withVm, closeVm, closeAllVms          *)
(***************************************************************************)
\* A buggy acquire(): `count >= 0` in place of `count > 0`.
SemFreeOffByOne(c, h) == semCount[h] >= 0

\* A reentrant acquire(): the caller's parent may hold the gate.
SemReentrant(c, h) ==
  \/ semCount[h] > 0
  \/ c = Inner /\ parent # 0 /\ centry[parent] = h /\ pc[parent] = "nested"

\* Semaphore.acquire, `if (this.count > 0)`, for caller c on entry h
SemFree(c, h) == semCount[h] > 0

\* A buggy getEntry: the pending table is never consulted.
NoInFlight(k) == 0

\* getEntry, `pending.get(key)`
InFlight(k) == pending[k]

\* A buggy closeVm: the entry stays in the pool table.
PoolKept(k) == pool

\* closeVm, `pool.delete(key)`
PoolDeleted(k) == [pool EXCEPT ![k] = 0]

\* A buggy creation: no `finally`, the pending entry stays.
PendingKept(k) == pending

\* getEntry's creation, `finally { pending.delete(key) }`
PendingDeleted(k) == [pending EXCEPT ![k] = 0]

\* The handle the next VM.create call yields.
FreeHandles == {h \in Handles : vm[h] = "none"}
NextHandle == CHOOSE h \in FreeHandles : \A g \in FreeHandles : h <= g

Stopping == {h \in Handles : vm[h] \in {"stopping", "stopped"}}

\* getEntry(key), up to its first await, called by c: the entry of the pool
\* table, else the creation in flight, else a creation it starts itself
\* (VM.create is called, and its promise stored in the pending table).
\* pc0 is where the callers stand as the call is made.
GetEntry(c, k, pc0) ==
  /\ ckey' = [ckey EXCEPT ![c] = k]
  /\ stopSeen' = [stopSeen EXCEPT ![c] = Stopping]
  /\ IF pool[k] # 0
     THEN /\ centry' = [centry EXCEPT ![c] = pool[k]]
          /\ via' = [via EXCEPT ![c] = "pool"]
          /\ pc' = [pc0 EXCEPT ![c] = "gotEntry"]
          /\ UNCHANGED <<cprom, pending, vm, vmKey>>
     ELSE IF InFlight(k) # 0
     THEN /\ cprom' = [cprom EXCEPT ![c] = InFlight(k)]
          /\ via' = [via EXCEPT ![c] = "pending"]
          /\ pc' = [pc0 EXCEPT ![c] = "awaitCreate"]
          /\ UNCHANGED <<centry, pending, vm, vmKey>>
     ELSE /\ FreeHandles # {}
          /\ vm' = [vm EXCEPT ![NextHandle] = "creating"]
          /\ vmKey' = [vmKey EXCEPT ![NextHandle] = k]
          /\ pending' = [pending EXCEPT ![k] = NextHandle]
          /\ cprom' = [cprom EXCEPT ![c] = NextHandle]
          /\ via' = [via EXCEPT ![c] = "create"]
          /\ pc' = [pc0 EXCEPT ![c] = "awaitCreate"]
          /\ UNCHANGED centry

\* A top-level withVm(k, options, fn) call; the callers are numbered in the
\* order of their calls.
Call(c, k) ==
  /\ pc[c] = "idle"
  /\ \A d \in Top : d < c => pc[d] # "idle"
  /\ GetEntry(c, k, pc)
  /\ UNCHANGED <<pool, semCount, semQueue, waited, parent, closes, torn>>
  /\ UNCHANGED <<frameVars, execVars, vfsVars, teardownVars>>

\* VM.create resolves: the continuation of getEntry's creation stores the
\* new entry with a Semaphore(1) and, in finally, deletes the key's
\* pending entry.
CreateResolve(h) ==
  /\ vm[h] = "creating"
  /\ vm' = [vm EXCEPT ![h] = "live"]
  /\ pool' = [pool EXCEPT ![vmKey[h]] = h]
  /\ semCount' = [semCount EXCEPT ![h] = 1]
  /\ semQueue' = [semQueue EXCEPT ![h] = <<>>]
  /\ pending' = PendingDeleted(vmKey[h])
  /\ UNCHANGED <<vmKey, pc, ckey, centry, cprom, via, waited, parent, closes, torn,
                 stopSeen>>
  /\ UNCHANGED <<frameVars, execVars, vfsVars, teardownVars>>

\* VM.create rejects: finally deletes the key's pending entry.
CreateReject(h) ==
  /\ vm[h] = "creating"
  /\ vm' = [vm EXCEPT ![h] = "failed"]
  /\ pending' = PendingDeleted(vmKey[h])
  /\ UNCHANGED <<pool, vmKey, semCount, semQueue, pc, ckey, centry, cprom, via,
                 waited, parent, closes, torn, stopSeen>>
  /\ UNCHANGED <<frameVars, execVars, vfsVars, teardownVars>>

\* withVm resumes from `await getEntry` with a rejection and fails.
EntryFailed(c) ==
  /\ pc[c] = "awaitCreate"
  /\ vm[cprom[c]] = "failed"
  /\ pc' = [pc EXCEPT ![c] = "createFailed"]
  /\ UNCHANGED <<pool, pending, vm, vmKey, semCount, semQueue, ckey, centry,
                 cprom, via, waited, parent, closes, torn, stopSeen>>
  /\ UNCHANGED <<frameVars, execVars, vfsVars, teardownVars>>

\* withVm resumes from `await getEntry` with the entry and calls
\* entry.semaphore.acquire(): the gate is taken, or the caller queues.
Acquire(c) ==
  /\ \/ pc[c] = "gotEntry"
     \/ pc[c] = "awaitCreate" /\ vm[cprom[c]] \in {"live", "stopping", "stopped"}
  /\ LET h == IF pc[c] = "gotEntry" THEN centry[c] ELSE cprom[c]
     IN  /\ centry' = [centry EXCEPT ![c] = h]
         /\ IF SemFree(c, h)
            THEN /\ semCount' = [semCount EXCEPT ![h] = @ - 1]
                 /\ pc' = [pc EXCEPT ![c] = "acquired"]
                 /\ UNCHANGED <<semQueue, waited>>
            ELSE /\ semQueue' = [semQueue EXCEPT ![h] = Append(@, c)]
                 /\ pc' = [pc EXCEPT ![c] = "waitSem"]
                 /\ waited' = [waited EXCEPT ![c] = TRUE]
                 /\ UNCHANGED semCount
  /\ UNCHANGED <<pool, pending, vm, vmKey, ckey, cprom, via, parent, closes,
                 torn, stopSeen>>
  /\ UNCHANGED <<frameVars, execVars, vfsVars, teardownVars>>

\* withVm resumes from `await acquire()` and calls fn(entry.vm).
StartFn(c) ==
  /\ pc[c] = "acquired"
  /\ pc' = [pc EXCEPT ![c] = "running"]
  /\ UNCHANGED <<pool, pending, vm, vmKey, semCount, semQueue, ckey, centry,
                 cprom, via, waited, parent, closes, torn, stopSeen>>
  /\ UNCHANGED <<frameVars, execVars, vfsVars, teardownVars>>

\* A buggy withVm: release() only after a callback that returned.
ExitOnReturnOnly(c, outcome) ==
  LET h == centry[c]
  IN  IF outcome = "threw"
      THEN /\ pc' = [pc EXCEPT ![c] = outcome]
           /\ UNCHANGED <<semCount, semQueue>>
      ELSE IF semQueue[h] # <<>>
      THEN /\ semQueue' = [semQueue EXCEPT ![h] = Tail(@)]
           /\ pc' = [pc EXCEPT ![c] = outcome, ![Head(semQueue[h])] = "acquired"]
           /\ UNCHANGED semCount
      ELSE /\ semCount' = [semCount EXCEPT ![h] = @ + 1]
           /\ pc' = [pc EXCEPT ![c] = outcome]
           /\ UNCHANGED semQueue

\* withVm's try/finally when fn has settled with `outcome`: release() hands
\* the gate to the first queued caller, or increments count.
Exit_withVm(c, outcome) ==
  LET h == centry[c]
  IN  IF semQueue[h] # <<>>
      THEN /\ semQueue' = [semQueue EXCEPT ![h] = Tail(@)]
           /\ pc' = [pc EXCEPT ![c] = outcome, ![Head(semQueue[h])] = "acquired"]
           /\ UNCHANGED semCount
      ELSE /\ semCount' = [semCount EXCEPT ![h] = @ + 1]
           /\ pc' = [pc EXCEPT ![c] = outcome]
           /\ UNCHANGED semQueue

\* fn's promise resolves.
FnReturn(c) ==
  /\ pc[c] = "running"
  /\ Exit_withVm(c, "done")
  /\ UNCHANGED <<pool, pending, vm, vmKey, ckey, centry, cprom, via, waited, parent,
                 closes, torn, stopSeen>>
  /\ UNCHANGED <<frameVars, execVars, vfsVars, teardownVars>>

\* fn throws, or its promise rejects.
FnThrow(c) ==
  /\ pc[c] = "running"
  /\ Exit_withVm(c, "threw")
  /\ UNCHANGED <<pool, pending, vm, vmKey, ckey, centry, cprom, via, waited, parent,
                 closes, torn, stopSeen>>
  /\ UNCHANGED <<frameVars, execVars, vfsVars, teardownVars>>

\* The running callback of c calls withVm(k, ...) itself and awaits it.
Nest(c, k) ==
  /\ c \in Top
  /\ pc[c] = "running"
  /\ parent = 0
  /\ parent' = c
  /\ GetEntry(Inner, k, [pc EXCEPT ![c] = "nested"])
  /\ UNCHANGED <<pool, semCount, semQueue, waited, closes, torn>>
  /\ UNCHANGED <<frameVars, execVars, vfsVars, teardownVars>>

\* The nested call has settled and the callback of c goes on.
NestSettled(c) ==
  /\ pc[c] = "nested"
  /\ parent = c
  /\ pc[Inner] \in {"done", "threw", "createFailed"}
  /\ pc' = [pc EXCEPT ![c] = "running"]
  /\ UNCHANGED <<pool, pending, vm, vmKey, semCount, semQueue, ckey, centry,
                 cprom, via, waited, parent, closes, torn, stopSeen>>
  /\ UNCHANGED <<frameVars, execVars, vfsVars, teardownVars>>

\* closeVm(key), up to its await: without an entry in the pool table only
\* the pending entry is deleted; else both are and vm.stop() is called.
CloseVm(k) ==
  /\ closes < MaxCloses
  /\ closes' = closes + 1
  /\ torn' = [torn EXCEPT ![k] = TRUE]
  /\ pending' = [pending EXCEPT ![k] = 0]
  /\ IF pool[k] = 0
     THEN UNCHANGED <<pool, vm, stops>>
     ELSE /\ pool' = PoolDeleted(k)
          /\ vm' = [vm EXCEPT ![pool[k]] = "stopping"]
          /\ stops' = [stops EXCEPT ![pool[k]] = @ + 1]
  /\ UNCHANGED <<vmKey, semCount, semQueue, pc, ckey, centry, cprom, via,
                 waited, parent, stopSeen, shutdown>>
  /\ UNCHANGED <<frameVars, execVars, vfsVars>>

\* closeAllVms(), up to its await: both tables are cleared and stop() is
\* called on the VM of every entry the pool table held.
CloseAllVms ==
  /\ closes < MaxCloses
  /\ closes' = closes + 1
  /\ torn' = [k \in Keys |-> TRUE]
  /\ pool' = [k \in Keys |-> 0]
  /\ pending' = [k \in Keys |-> 0]
  /\ vm' = [h \in Handles |->
              IF \E k \in Keys : pool[k] = h THEN "stopping" ELSE vm[h]]
  /\ stops' = [h \in Handles |->
                 IF \E k \in Keys : pool[k] = h THEN stops[h] + 1
                 ELSE stops[h]]
  /\ shutdown' =
       IF shutdown.state = "unobserved" THEN shutdown
       ELSE [state |-> "stopping",
             stopped |-> {h \in Handles : \E k \in Keys : pool[k] = h},
             known |-> {h \in Handles : vm[h] \in {"creating", "live"}},
             cleanAtDone |-> FALSE]
  /\ UNCHANGED <<vmKey, semCount, semQueue, pc, ckey, centry, cprom, via,
                 waited, parent, stopSeen>>
  /\ UNCHANGED <<frameVars, execVars, vfsVars>>

\* closeAllVms() completes: every stop() it awaits has settled.
CloseAllDone ==
  /\ shutdown.state = "stopping"
  /\ \A h \in shutdown.stopped : vm[h] = "stopped"
  /\ shutdown' = [shutdown EXCEPT
                    !.state = "done",
                    !.cleanAtDone =
                       \A k \in Keys : /\ pool[k] \notin shutdown.known
                                       /\ pending[k] \notin shutdown.known]
  /\ UNCHANGED <<pool, pending, vm, vmKey, semCount, semQueue, pc, ckey,
                 centry, cprom, via, waited, parent, closes, torn, stopSeen,
                 stops>>
  /\ UNCHANGED <<frameVars, execVars, vfsVars>>

\* vm.stop() settles.
StopDone(h) ==
  /\ vm[h] = "stopping"
  /\ vm' = [vm EXCEPT ![h] = "stopped"]
  /\ UNCHANGED <<pool, pending, vmKey, semCount, semQueue, pc, ckey, centry,
                 cprom, via, waited, parent, closes, torn, stopSeen>>
  /\ UNCHANGED <<frameVars, execVars, vfsVars, teardownVars>>

InitPool == FrameIdle /\ ExecIdle /\ VfsIdle /\ PoolIdle

\* The steps of withVm calls.
NextWithVm ==
  \/ \E c \in Top, k \in Keys : Call(c, k)
  \/ \E h \in Handles : CreateResolve(h)
  \/ \E h \in Handles : CreateReject(h)
  \/ \E c \in Callers : EntryFailed(c)
  \/ \E c \in Callers : Acquire(c)
  \/ \E c \in Callers : StartFn(c)
  \/ \E c \in Callers : FnReturn(c)
  \/ \E c \in Callers : FnThrow(c)

NextPool ==
  \/ NextWithVm
  \/ \E k \in Keys : CloseVm(k)
  \/ CloseAllVms
  \/ \E h \in Handles : StopDone(h)

\* Any interleaving of withVm, closeVm and closeAllVms calls.
SpecPool == InitPool /\ [][NextPool]_vars

\* The same, with the completion of closeAllVms followed.
InitShutdown ==
  FrameIdle /\ ExecIdle /\ VfsIdle /\ PoolEmpty /\ shutdown = NoShutdown

NextShutdown == NextPool \/ CloseAllDone

SpecShutdown == InitShutdown /\ [][NextShutdown]_vars

\* The event loop runs every continuation that is ready, and every callback
\* that was started settles.
Resume(c) ==
  Acquire(c) \/ EntryFailed(c) \/ StartFn(c) \/ FnReturn(c) \/ FnThrow(c)

FairCallers == \A c \in Callers : WF_vars(Resume(c))

\* withVm calls alone, under that fairness.  (closeVm and closeAllVms never
\* touch a semaphore.)
FairPool == InitPool /\ [][NextWithVm]_vars /\ FairCallers

\* The same, with callbacks that may themselves call withVm once.
NextNest ==
  \/ NextWithVm
  \/ \E c \in Top, k \in Keys : Nest(c, k)
  \/ \E c \in Top : NestSettled(c)

\* Besides, VM.create settles and a callback goes on once the call it
\* awaits has settled.
FairNest ==
  /\ InitPool
  /\ [][NextNest]_vars
  /\ FairCallers
  /\ \A c \in Top : WF_vars(NestSettled(c))
  /\ \A h \in Handles : WF_vars(CreateResolve(h) \/ CreateReject(h))

\* The callers whose withVm call has been given an entry for key k.
Holders(k) == {c \in Callers : ckey[c] = k /\ centry[c] # 0}

\* The VM.create invocations made for key k.
CreatedFor(k) == {h \in Handles : vmKey[h] = k}

\* C4: single-flight creation.  For a key that has seen no teardown, all
\* withVm calls, however they interleave, share one creation: at most one
\* VM.create invocation for the key is in flight, only an invocation that
\* was rejected is ever followed by another, and every caller that has
\* received an entry has received the same one (the same VM handle and
\* semaphore).
C4_SingleFlight ==
  \A k \in Keys :
    ~torn[k] =>
      /\ Cardinality({h \in CreatedFor(k) : vm[h] # "failed"}) <= 1
      /\ \A c \in Holders(k), d \in Holders(k) : centry[c] = centry[d]

\* C4 witness: two calls for a fresh key, the second issued while the
\* creation the first started was in flight, have both been given the entry
\* of the one VM.create invocation made.
C4_Witness ==
  \E k \in Keys : \E c \in Holders(k), d \in Holders(k) :
    /\ ~torn[k]
    /\ via[c] = "create"
    /\ via[d] = "pending"
    /\ centry[c] = centry[d]
    /\ Cardinality(CreatedFor(k)) = 1

\* C5 (the claim as stated): in every reachable state at most one
\* VM.create invocation is in flight for any key.
C5_OneCreationInFlight ==
  \A k \in Keys : Cardinality({h \in CreatedFor(k) : vm[h] = "creating"}) <= 1

\* C6 (the claim as stated): for each key at most one handle has been
\* created and not yet stopped, and every such handle is the one the pool
\* table holds for its key.
C6_OneHandlePerKey ==
  /\ \A k \in Keys : Cardinality({h \in CreatedFor(k) : vm[h] = "live"}) <= 1
  /\ \A h \in Handles : vm[h] = "live" => pool[vmKey[h]] = h

\* C7: mutual exclusion.  The gate of an entry is held by at most one caller
\* (from acquire() returning to release()), so at most one callback runs on
\* a handle at any time; and over any number of withVm calls on a key, with
\* no teardown of the key among them, at most one callback runs for the key.
C7_MutualExclusion ==
  /\ \A h \in Handles :
       Cardinality({c \in Callers :
                      centry[c] = h /\ pc[c] \in {"acquired", "running", "nested"}})
         <= 1
  /\ \A k \in Keys :
       ~torn[k] =>
         Cardinality({c \in Callers :
                        ckey[c] = k /\ pc[c] \in {"running", "nested"}}) <= 1

\* C7 witness: a callback runs on a key while another withVm call on the
\* same key waits in the queue of the same semaphore.
C7_Witness ==
  \E c \in Callers, d \in Callers :
    /\ pc[c] = "running"
    /\ pc[d] = "waitSem"
    /\ ckey[c] = ckey[d]
    /\ centry[c] = centry[d]
    /\ ~torn[ckey[c]]

\* C8 (the claim as stated): no withVm callback starts running on a handle
\* after closeVm has begun stopping that handle.
C8_NoCallbackOnDoomed ==
  [][\A c \in Callers :
       (pc[c] # "running" /\ pc'[c] = "running") => vm[centry[c]] = "live"]_vars

\* C8, amended: a teardown removes the key from both tables before the
\* handle is stopped (no stopping or stopped handle is in the pool table,
\* and the pending table holds only creations in flight), so no withVm call
\* issued after the stop of a handle has begun is given that handle.
C8_FreshAcquireNotDoomed ==
  /\ \A k \in Keys : pool[k] # 0 => vm[pool[k]] = "live"
  /\ \A k \in Keys : pending[k] # 0 => vm[pending[k]] = "creating"
  /\ \A c \in Callers : centry[c] \notin stopSeen[c]

\* C8 witness: closeVm has begun stopping the handle of a key, and a withVm
\* call on that key issued afterwards has been given another entry.
C8_Witness ==
  \E c \in Callers, h \in Handles :
    /\ h \in stopSeen[c]
    /\ vmKey[h] = ckey[c]
    /\ centry[c] # 0
    /\ centry[c] # h

\* The callers holding the gate of entry h: acquire() has returned to them
\* and they have not yet released.
GateHolders(h) ==
  {c \in Callers : centry[c] = h /\ pc[c] \in {"acquired", "running", "nested"}}

\* C9: the gate is released on every exit path of withVm, also when the
\* callback fails: the gate of an entry is taken only while a caller holds
\* it, callers queue only behind a holder, and, every started callback
\* settling, every caller waiting on a gate comes to run its callback.
C9_ReleasedOnEveryPath ==
  /\ [](\A h \in Handles :
          vm[h] \in {"live", "stopping", "stopped"} =>
            /\ semCount[h] + Cardinality(GateHolders(h)) = 1
            /\ (semQueue[h] # <<>> => semCount[h] = 0))
  /\ \A c \in Callers : (pc[c] = "waitSem") ~> (pc[c] = "running")

\* C9 witness: a callback has thrown, and a caller that had queued behind
\* it on the same gate runs its callback.
C9_Witness ==
  \E c \in Callers, d \in Callers :
    /\ pc[c] = "threw"
    /\ pc[d] = "running"
    /\ waited[d]
    /\ centry[c] = centry[d]

\* C10: the gate is binary and not reentrant.  A withVm call made and
\* awaited by a callback that holds the gate of the same key is given the
\* entry whose gate the callback holds; it never takes the gate or runs its
\* callback, and the outer callback stays at its await for ever.  A nested
\* call for another key is not held up: it comes to run its callback (or
\* fails because its VM.create was rejected).
C10_NotReentrant ==
  /\ [](parent # 0 /\ ckey[Inner] = ckey[parent] =>
          /\ centry[Inner] = centry[parent]
          /\ pc[Inner] \in {"gotEntry", "waitSem"}
          /\ pc[parent] = "nested")
  /\ (parent # 0 /\ ckey[Inner] # ckey[parent])
       ~> (pc[Inner] \in {"running", "done", "threw", "createFailed"})

\* C10 witness: a callback holding the gate of its key awaits a nested
\* withVm call on the same key, which waits in the queue of that gate.
C10_Witness ==
  /\ parent # 0
  /\ pc[parent] = "nested"
  /\ ckey[Inner] = ckey[parent]
  /\ centry[Inner] = centry[parent]
  /\ pc[Inner] = "waitSem"

\* The number of leading frames of fs whose encoding lies wholly within the
\* first n bytes of the stream.
RECURSIVE CompleteCount(_, _)
CompleteCount(fs, n) ==
  IF fs = <<>> \/ Len(EncodeFrame(Head(fs))) > n
  THEN 0
  ELSE 1 + CompleteCount(Tail(fs), n - Len(EncodeFrame(Head(fs))))

\* C1: however the stream of encoded frames is cut into chunks, onFrame has
\* been called exactly once, in order and with the original body, for each
\* frame whose last byte has been pushed, and for nothing else: what was
\* emitted depends on the bytes fed so far, never on the chunk boundaries.
C1_ChunkingIndependence ==
  emitted = SubSeq(frames, 1, CompleteCount(frames, fed))

\* C1 witness: two frames, one with a body, were emitted by one push() after
\* an earlier push() had ended in the middle of a frame.
C1_Witness ==
  /\ Len(frames) = 2
  /\ frames[2] # <<>>
  /\ split
  /\ buffer = <<>>
  /\ expectedLength = Null
  /\ lastEmit = 2
  /\ emitted = frames

\* C2 (the claim as stated): once push() has failed on a length above
\* MAX_FRAME the reader holds none of the oversized frame's bytes, neither
\* those that came with the header nor those of later push() calls.
C2_NoOversizeBuffering ==
  failed => buffer = <<>>

\* The data of the exec_output frames of ms addressed to id on stream sm, in
\* order.
RECURSIVE OutputOf(_, _, _)
OutputOf(ms, id, sm) ==
  IF ms = <<>> THEN <<>>
  ELSE (IF Head(ms).t = "exec_output" /\ Head(ms).id = id /\ Head(ms).stream = sm
        THEN Head(ms).data ELSE <<>>) \o OutputOf(Tail(ms), id, sm)

\* C3 (the claim as stated): demultiplexing is by id.  The bytes on the
\* client's stdout and stderr are those of the exec_output frames carrying
\* its own id, and an exec_response or error frame that ends the request
\* carries its own id.
C3_DemuxById ==
  /\ stdout = OutputOf(recv, argsId, "stdout")
  /\ stderr = OutputOf(recv, argsId, "stderr")
  /\ (endedBy = "frame" /\ recv[Len(recv)].t \in {"exec_response", "error"})
       => recv[Len(recv)].id = argsId

(***************************************************************************)
(* ReadonlyVirtualProvider (readonly-virtual.ts), isWriteFlag (utils.ts)   *)
(***************************************************************************)
\* The characters of a flag string, and the flag strings of the model.
MaxFlagLen == 2
FlagChars == {"r", "w", "a", "+", "x"}
Flags == SeqsUpTo(FlagChars, MaxFlagLen)

\* Entry paths and the optional mode argument (absent, or 0o644).
Paths == {"/a", "/b"}
Modes == {Undefined, 420}

\* ERRNO.EROFS
EROFS == "EROFS"

\* createErrnoError(errno, syscall, path): an error carrying the three.
createErrnoError(errno, syscall, path) ==
  [errno |-> errno, syscall |-> syscall, path |-> path]

\* What an abstract method of the backend may do when it is called: return
\* a value or throw an error of its own.
BackendOutcomes ==
  { [kind |-> "returned", value |-> "value", error |-> NoError],
    [kind |-> "threw", value |-> "",
     error |-> [errno |-> "ENOENT", syscall |-> "backend", path |-> ""]] }

\* this.<method>(args) on the backend, which does `be`.
Invoke(method, args, be) ==
  [kind |-> be.kind, value |-> be.value, error |-> be.error,
   calls |-> <<[method |-> method, args |-> args]>>]

\* throw e, with no backend method called.
Throw(e) == [kind |-> "threw", value |-> "", error |-> e, calls |-> <<>>]

\* An async method whose body is `return this.<sync method>(...)`: a return
\* resolves the promise, a throw rejects it with the error thrown.
AsyncOf(r) ==
  [r EXCEPT !.kind = IF @ = "threw" THEN "rejected" ELSE "resolved"]

\* A buggy isWriteFlag: /[wa]/ in place of /[wa+]/.
isWriteFlagNoPlus(flags) ==
  \E i \in 1..Len(flags) : flags[i] \in {"w", "a"}

\* isWriteFlag(flags): /[wa+]/.test(flags)
isWriteFlag(flags) ==
  \E i \in 1..Len(flags) : flags[i] \in {"w", "a", "+"}

openSync(entryPath, flags, mode, be) ==
  IF isWriteFlag(flags)
  THEN Throw(createErrnoError(EROFS, "open", entryPath))
  ELSE Invoke("openReadonlySync", <<entryPath, flags, mode>>, be)

open(entryPath, flags, mode, be) == AsyncOf(openSync(entryPath, flags, mode, be))

statSync(entryPath, be) == Invoke("statSync", <<entryPath>>, be)
stat(entryPath, be) == AsyncOf(statSync(entryPath, be))

lstatSync(entryPath, be) == Invoke("lstatSync", <<entryPath>>, be)
lstat(entryPath, be) == AsyncOf(lstatSync(entryPath, be))

readdirSync(entryPath, be) == Invoke("readdirSync", <<entryPath>>, be)
readdir(entryPath, be) == AsyncOf(readdirSync(entryPath, be))

mkdirSync(entryPath) == Throw(createErrnoError(EROFS, "mkdir", entryPath))
mkdir(entryPath) == AsyncOf(mkdirSync(entryPath))

rmdirSync(entryPath) == Throw(createErrnoError(EROFS, "rmdir", entryPath))
rmdir(entryPath) == AsyncOf(rmdirSync(entryPath))

unlinkSync(entryPath) == Throw(createErrnoError(EROFS, "unlink", entryPath))
unlink(entryPath) == AsyncOf(unlinkSync(entryPath))

\* A buggy renameSync: the error names the new path.
renameSyncNewPath(oldPath, newPath) ==
  Throw(createErrnoError(EROFS, "rename", newPath))

renameSync(oldPath, newPath) ==
  Throw(createErrnoError(EROFS, "rename", oldPath))
rename(oldPath, newPath) == AsyncOf(renameSync(oldPath, newPath))

symlinkSync(target, entryPath) ==
  Throw(createErrnoError(EROFS, "symlink", entryPath))
symlink(target, entryPath) == AsyncOf(symlinkSync(target, entryPath))

\* A call of method `name` with the arguments given, ending as r.
Called(name, async, p, p2, f, md, be, r) ==
  /\ op' = [name |-> name, async |-> async, path |-> p, path2 |-> p2,
            flags |-> f, mode |-> md]
  /\ oracle' = be
  /\ backend' = r.calls
  /\ opResult' = [kind |-> r.kind, value |-> r.value, error |-> r.error]
  /\ UNCHANGED <<frameVars, execVars, poolVars, pathVars>>

Open ==
  \E async \in BOOLEAN, p \in Paths, f \in Flags, md \in Modes,
     be \in BackendOutcomes :
    Called("open", async, p, "", f, md, be,
           IF async THEN open(p, f, md, be) ELSE openSync(p, f, md, be))

Stat ==
  \E async \in BOOLEAN, p \in Paths, be \in BackendOutcomes :
    Called("stat", async, p, "", <<>>, Undefined, be,
           IF async THEN stat(p, be) ELSE statSync(p, be))

Lstat ==
  \E async \in BOOLEAN, p \in Paths, be \in BackendOutcomes :
    Called("lstat", async, p, "", <<>>, Undefined, be,
           IF async THEN lstat(p, be) ELSE lstatSync(p, be))

Readdir ==
  \E async \in BOOLEAN, p \in Paths, be \in BackendOutcomes :
    Called("readdir", async, p, "", <<>>, Undefined, be,
           IF async THEN readdir(p, be) ELSE readdirSync(p, be))

Mkdir ==
  \E async \in BOOLEAN, p \in Paths, be \in BackendOutcomes :
    Called("mkdir", async, p, "", <<>>, Undefined, be,
           IF async THEN mkdir(p) ELSE mkdirSync(p))

Rmdir ==
  \E async \in BOOLEAN, p \in Paths, be \in BackendOutcomes :
    Called("rmdir", async, p, "", <<>>, Undefined, be,
           IF async THEN rmdir(p) ELSE rmdirSync(p))

Unlink ==
  \E async \in BOOLEAN, p \in Paths, be \in BackendOutcomes :
    Called("unlink", async, p, "", <<>>, Undefined, be,
           IF async THEN unlink(p) ELSE unlinkSync(p))

Rename ==
  \E async \in BOOLEAN, p \in Paths, p2 \in Paths, be \in BackendOutcomes :
    Called("rename", async, p, p2, <<>>, Undefined, be,
           IF async THEN rename(p, p2) ELSE renameSync(p, p2))

Symlink ==
  \E async \in BOOLEAN, p \in Paths, p2 \in Paths, be \in BackendOutcomes :
    Called("symlink", async, p, p2, <<>>, Undefined, be,
           IF async THEN symlink(p, p2) ELSE symlinkSync(p, p2))

InitProvider == FrameIdle /\ ExecIdle /\ PoolIdle /\ VfsIdle

NextProvider ==
  \/ Open \/ Stat \/ Lstat \/ Readdir
  \/ Mkdir \/ Rmdir \/ Unlink \/ Rename \/ Symlink

SpecProvider == InitProvider /\ [][NextProvider]_vars

(***************************************************************************)
(* normalizeVfsPath (utils.ts)                                             *)
(***************************************************************************)
\* The characters of a path and the longest path of the model.
MaxPathLen == 4
PathChars == {"/", ".", "a"}
InputPaths == SeqsUpTo(PathChars, MaxPathLen)

DotDot == <<".", ".">>

\* The segments of p: the runs of characters between separators, empty
\* ones included.
RECURSIVE Segments(_, _, _)
Segments(p, cur, out) ==
  IF p = <<>> THEN Append(out, cur)
  ELSE IF Head(p) = "/" THEN Segments(Tail(p), <<>>, Append(out, cur))
  ELSE Segments(Tail(p), Append(cur, Head(p)), out)

\* normalizeString of node:path: empty and "." segments are dropped; a ".."
\* segment removes the segment before it when there is one that is not
\* itself "..", else it is kept when allowAboveRoot and dropped otherwise.
RECURSIVE ResolveDots(_, _, _)
ResolveDots(segs, allowAboveRoot, res) ==
  IF segs = <<>> THEN res
  ELSE LET seg == Head(segs)
       IN  IF seg = <<>> \/ seg = <<".">>
           THEN ResolveDots(Tail(segs), allowAboveRoot, res)
           ELSE IF seg = DotDot
           THEN IF res # <<>> /\ res[Len(res)] # DotDot
                THEN ResolveDots(Tail(segs), allowAboveRoot,
                                 SubSeq(res, 1, Len(res) - 1))
                ELSE IF allowAboveRoot
                THEN ResolveDots(Tail(segs), allowAboveRoot, Append(res, seg))
                ELSE ResolveDots(Tail(segs), allowAboveRoot, res)
           ELSE ResolveDots(Tail(segs), allowAboveRoot, Append(res, seg))

\* The segments joined by the separator.
RECURSIVE Join(_)
Join(segs) ==
  IF segs = <<>> THEN <<>>
  ELSE IF Len(segs) = 1 THEN Head(segs)
  ELSE Head(segs) \o <<"/">> \o Join(Tail(segs))

\* path.posix.normalize(path)
PosixNormalize(path) ==
  IF path = <<>> THEN <<".">>
  ELSE LET isAbsolute == path[1] = "/"
           trailingSeparator == path[Len(path)] = "/"
           body == Join(ResolveDots(Segments(path, <<>>, <<>>),
                                    ~isAbsolute, <<>>))
       IN  IF body = <<>>
           THEN IF isAbsolute THEN <<"/">>
                ELSE IF trailingSeparator THEN <<".", "/">> ELSE <<".">>
           ELSE LET tailed == IF trailingSeparator
                              THEN body \o <<"/">> ELSE body
                IN  IF isAbsolute THEN <<"/">> \o tailed ELSE tailed

\* normalizeVfsPath(inputPath)
normalizeVfsPath(inputPath0) ==
  LET n == PosixNormalize(inputPath0)
      slashed == IF n[1] # "/" THEN <<"/">> \o n ELSE n
  IN  IF Len(slashed) > 1 /\ slashed[Len(slashed)] = "/"
      THEN SubSeq(slashed, 1, Len(slashed) - 1)
      ELSE slashed

\* Any string may be passed to normalizeVfsPath.
InitPath ==
  /\ FrameIdle /\ ExecIdle /\ PoolIdle /\ ProviderIdle
  /\ inputPath \in InputPaths
  /\ normalized = <<>>
  /\ renormalized = <<>>

\* normalizeVfsPath(inputPath)
Normalize ==
  /\ normalized = <<>>
  /\ normalized' = normalizeVfsPath(inputPath)
  /\ UNCHANGED <<inputPath, renormalized>>
  /\ UNCHANGED <<frameVars, execVars, poolVars, providerVars>>

\* normalizeVfsPath applied to its own result
Renormalize ==
  /\ normalized # <<>>
  /\ renormalized = <<>>
  /\ renormalized' = normalizeVfsPath(normalized)
  /\ UNCHANGED <<inputPath, normalized>>
  /\ UNCHANGED <<frameVars, execVars, poolVars, providerVars>>

NextPath == Normalize \/ Renormalize

SpecPath == InitPath /\ [][NextPath]_vars

(***************************************************************************)
(* The exec client: the end of the request                                 *)
(***************************************************************************)
\* C11: a transport that ends or errors before a terminal message fails the
\* request.  In no state is the transport closed (ended or destroyed) with
\* the client still running, and a client ended by the "end" or the "error"
\* event has a nonzero exit status.
C11_ClosedNeverPending ==
  /\ sock \in {"ended", "destroyed"} => proc = "exited"
  /\ endedBy \in {"socket end", "socket error"}
       => exitCode # Null /\ exitCode # 0

\* C11 witness: the peer closed the transport after output was delivered and
\* before any terminal frame; the client has exited with status 1.
C11_Witness ==
  /\ endedBy = "socket end"
  /\ recv # <<>>
  /\ \A i \in 1..Len(recv) : recv[i].t = "exec_output"
  /\ proc = "exited"
  /\ exitCode = 1

\* C12 (the claim as stated): the exit status mapping.  A client ended by an
\* exec_response without a signal exits with the reported exit_code; one
\* ended by an exec_response carrying a signal, or by a protocol error,
\* exits with a nonzero status whatever the exit_code.
C12_ExitStatusMapping ==
  (endedBy = "frame" /\ recv # <<>>) =>
    LET m == recv[Len(recv)]
    IN  /\ (m.t = "exec_response" /\ m.signal = Undefined
              /\ m.exit_code # Undefined) => exitCode = m.exit_code
        /\ (m.t = "exec_response" /\ m.signal # Undefined) => exitCode # 0
        /\ m.t \in {"error", "malformed"} => exitCode # 0

\* C13: an error frame is terminal and a failure.  An error frame passed to
\* the callback is the last frame the client processes: the socket is ended
\* and the process has exited with status 1, whatever output came before.
C13_ErrorIsTerminalFailure ==
  \A i \in 1..Len(recv) :
    recv[i].t = "error"
      => /\ i = Len(recv)
         /\ proc = "exited"
         /\ exitCode = 1
         /\ sock = "ended"
         /\ endedBy = "frame"

\* C13 witness: an error frame arrived after output had been delivered.
C13_Witness ==
  /\ Len(recv) >= 2
  /\ recv[1].t = "exec_output"
  /\ recv[Len(recv)].t = "error"
  /\ stdout \o stderr # <<>>
  /\ exitCode = 1

\* C14 (the claim as stated): a frame of a type other than exec_output,
\* exec_response and error is fatal.  Once such a frame has been passed to
\* the callback the client has failed: it is the last frame processed and
\* the process has exited with a nonzero status.
C14_UnknownTypeFatal ==
  \A i \in 1..Len(recv) :
    recv[i].t = "unknown"
      => /\ i = Len(recv)
         /\ proc = "exited"
         /\ exitCode # 0

\* The types of the frames that end a request.
Terminal == {"exec_response", "error"}

\* C15: terminal states are absorbing.  A terminal frame passed to the
\* callback is the last frame passed to it, frames arriving after it in the
\* same chunk included, and once the process has exited neither its output
\* nor its exit status changes.
C15_TerminalAbsorbing ==
  /\ [](/\ \A i \in 1..Len(recv) :
             recv[i].t \in Terminal => i = Len(recv) /\ proc = "exited"
        /\ Len(recv) <= Len(arrived)
        /\ recv = SubSeq(arrived, 1, Len(recv)))
  /\ [][proc = "exited"
          => UNCHANGED <<proc, exitCode, stdout, stderr, recv>>]_vars

\* C15 witness: a chunk carried a terminal frame followed by a further
\* frame (output or a second terminal frame), which was never processed.
C15_Witness ==
  /\ endedBy = "frame"
  /\ recv # <<>>
  /\ recv[Len(recv)].t \in Terminal
  /\ Len(arrived) > Len(recv)
  /\ arrived[Len(recv) + 1].t \in Terminal \cup {"exec_output"}

\* The data of the exec_output frames of ms tagged sm, concatenated in order.
RECURSIVE TaggedData(_, _)
TaggedData(ms, sm) ==
  IF ms = <<>> THEN <<>>
  ELSE (IF Head(ms).t = "exec_output" /\ Head(ms).stream = sm
        THEN Head(ms).data ELSE <<>>) \o TaggedData(Tail(ms), sm)

FailKind == IF op.async THEN "rejected" ELSE "threw"

\* C17: open on the read-only provider.  For a flag string with one of the
\* characters w, a, + both openSync and open fail with an EROFS error and
\* openReadonlySync is not invoked; for any other flag string
\* openReadonlySync is invoked exactly once, with the same path, flags and
\* mode, and what it does (its value, or its error) is the call's result.
C17_OpenReadonly ==
  op.name = "open" =>
    IF \E i \in 1..Len(op.flags) : op.flags[i] \in {"w", "a", "+"}
    THEN /\ opResult.kind = FailKind
         /\ opResult.error.errno = EROFS
         /\ backend = <<>>
    ELSE /\ backend = <<[method |-> "openReadonlySync",
                         args |-> <<op.path, op.flags, op.mode>>]>>
         /\ opResult.value = oracle.value
         /\ opResult.error = oracle.error
         /\ opResult.kind =
              IF op.async
              THEN (IF oracle.kind = "threw" THEN "rejected" ELSE "resolved")
              ELSE oracle.kind

\* C17 witness: the async open was called with the flags "r+" and refused
\* without a call of the backend.
C17_Witness ==
  /\ op.name = "open"
  /\ op.flags = <<"r", "+">>
  /\ opResult.kind = "rejected"
  /\ opResult.error.errno = EROFS
  /\ backend = <<>>

\* The path a refused mutation is about: oldPath for rename, the link path
\* for symlink, the entry path otherwise.
FailingPath == IF op.name = "symlink" THEN op.path2 ELSE op.path

\* C18: mutations on the read-only provider.  Every mkdir, rmdir, unlink,
\* rename and symlink, sync or async, fails with an EROFS error that names
\* the method and the failing path, and invokes no backend method; the
\* async form rejects with the error the sync form throws.
C18_MutationsRefused ==
  op.name \in {"mkdir", "rmdir", "unlink", "rename", "symlink"} =>
    /\ opResult.kind = FailKind
    /\ opResult.error = [errno |-> EROFS, syscall |-> op.name,
                         path |-> FailingPath]
    /\ opResult.value = ""
    /\ backend = <<>>

\* C18 witness: an async rename between two different paths was refused
\* with an error naming the old path.
C18_Witness ==
  /\ op.name = "rename"
  /\ op.async
  /\ op.path # op.path2
  /\ opResult.kind = "rejected"
  /\ opResult.error.path = op.path

(***************************************************************************)
(* Path normalisation                                                      *)
(***************************************************************************)
\* C19 (the claim as stated): normalizeVfsPath is idempotent for every
\* input, the root maps to "/", and every result starts with exactly one
\* "/" and has no trailing "/" unless it is "/".
C19_NormalizeIdempotent ==
  /\ normalized # <<>> =>
       /\ normalized[1] = "/"
       /\ Len(normalized) > 1 =>
            normalized[2] # "/" /\ normalized[Len(normalized)] # "/"
       /\ inputPath = <<"/">> => normalized = <<"/">>
  /\ renormalized # <<>> => renormalized = normalized

(***************************************************************************)
(* The VM pool: shutdown                                                   *)
(***************************************************************************)
\* C20 (the claim as stated): closeAllVms tears down all sessions together.
\* No handle is stopped more than once; and once closeAllVms has completed,
\* stop() was called exactly once on every handle that was in the pool, and
\* of the handles created or in creation when closeAllVms was called none
\* was in a table at the completion and none is live or in the pool.
\* (Handles of withVm calls made after the closeAllVms call are left out.)
C20_ShutdownStopsAll ==
  /\ \A h \in Handles : stops[h] <= 1
  /\ shutdown.state = "done" =>
       /\ shutdown.cleanAtDone
       /\ \A h \in shutdown.stopped : stops[h] = 1
       /\ \A h \in shutdown.known :
            /\ vm[h] # "live"
            /\ \A k \in Keys : pool[k] # h

(***************************************************************************)
(* The VM pool: failed creation                                            *)
(***************************************************************************)
\* The handles VM.create was called for with key k that are in state s.
CreationsIn(k, s) == {h \in Handles : vmKey[h] = k /\ vm[h] \in s}

\* C21: a failed creation leaves the pool clean and retryable.  A handle
\* whose VM.create rejected is in neither table, nobody holds or awaits a
\* gate for it, and a caller that awaited it gets no entry; as the creation
\* rejects the key has no pool and no pending entry; a withVm call for a key
\* all of whose creations so far have failed invokes VM.create again; and
\* every caller awaiting a creation that rejected comes to fail.
C21_FailedCreationRetryable ==
  /\ [](\A h \in Handles :
          vm[h] = "failed" =>
            /\ \A k \in Keys : pool[k] # h /\ pending[k] # h
            /\ GateHolders(h) = {}
            /\ semQueue[h] = <<>>
            /\ \A c \in Callers :
                 cprom[c] = h => /\ centry[c] = 0
                                 /\ pc[c] \in {"awaitCreate", "createFailed"})
  /\ [][\A h \in Handles :
          (vm[h] = "creating" /\ vm'[h] = "failed")
            => pool'[vmKey[h]] = 0 /\ pending'[vmKey[h]] = 0]_vars
  /\ [][\A c \in Callers :
          (/\ pc[c] = "idle"
           /\ pc'[c] # "idle"
           /\ CreationsIn(ckey'[c], {"failed"}) # {}
           /\ CreationsIn(ckey'[c], {"creating", "live"}) = {})
            => /\ via'[c] = "create"
               /\ vm[cprom'[c]] = "none"
               /\ vm'[cprom'[c]] = "creating"
               /\ vmKey'[cprom'[c]] = ckey'[c]]_vars
  /\ \A c \in Callers :
       (pc[c] = "awaitCreate" /\ vm[cprom[c]] = "failed")
         ~> (pc[c] = "createFailed")

\* C21 witness: a caller's creation was rejected and the caller has failed;
\* a later withVm call for the same key started a new creation.
C21_Witness ==
  \E c \in Callers, d \in Callers :
    /\ pc[c] = "createFailed"
    /\ vm[cprom[c]] = "failed"
    /\ ckey[d] = ckey[c]
    /\ via[d] = "create"
    /\ cprom[d] > cprom[c]
    /\ vmKey[cprom[d]] = ckey[c]

(***************************************************************************)
(* FrameReader: the state between pushes                                   *)
(***************************************************************************)
\* C22 (the claim as stated): the state of the reader after every push()
\* that returns normally.  Either expectedLength is null and fewer than 4
\* bytes are buffered, or expectedLength is in 0..MAX_FRAME and fewer than
\* expectedLength bytes are buffered; so no more than MAX_FRAME bytes are
\* retained between pushes.
C22_ReaderInvariant ==
  (fed > 0 /\ ~threw) =>
    /\ \/ expectedLength = Null /\ Len(buffer) < 4
       \/ /\ expectedLength \in 0..MAX_FRAME
          /\ Len(buffer) < expectedLength
    /\ Len(buffer) <= MAX_FRAME

====
